---- MODULE Spec2Model ----
(***************************************************************************)
(* State-machine model of the realtime-agents front end:                   *)
(*   - ConversationMemoryChain (memoryChain.ts, kept at the end of         *)
(*     agentConfigs/productResearch/index.ts),                             *)
(*   - DeepSeekConnection (lib/realtimeConnection.ts, both revisions),     *)
(*   - the App handlers handleConnect / handleDisconnect /                 *)
(*     handleSendMessage / handleAgentChange (App.tsx).                    *)
(*                                                                         *)
(* JavaScript is run-to-completion: a handler runs until its next await,   *)
(* continuations of awaits on already settled promises run in FIFO order   *)
(* of the microtask queue, and network completions and timers are tasks.   *)
(***************************************************************************)
EXTENDS Integers, Sequences, FiniteSets, TLC

\* ------------------------------------------------------------------------
\* Bounds of the model
\* ------------------------------------------------------------------------
MaxCap == 2
MaxThreshold == 3
MaxAdds == 4
MaxPending == 3
MaxNow == 1
MaxConns == 1
MaxSends == 2
MaxAgentChanges == 2
MaxEvents == 3
MaxTasks == 2
MaxTranscriptCalls == 3
MaxTicks == 3

\* ------------------------------------------------------------------------
\* Program constants
\* ------------------------------------------------------------------------
DefaultMaxMessages == 10
DefaultSummarizeThreshold == 5
KeyPointLen == 100

Roles == {"system", "user", "assistant"}

\* Message texts: a short text and one longer than KeyPointLen characters.
ShortText == <<1>>
LongText == [i \in 1..(KeyPointLen + 1) |-> 2]
Contents == {ShortText, LongText}

\* summary: null, or the placeholder text `Last ${n} messages exchanged`
Null == [kind |-> "null"]
PlaceholderSummary(n) == [kind |-> "text", lastN |-> n]

VARIABLES
  maxMessages,         \* ConversationMemoryChain.maxMessages
  summarizeThreshold,  \* ConversationMemoryChain.summarizeThreshold
  chain,               \* ConversationMemoryChain.state
  pending,             \* addMessage calls suspended at "await summarizeConversation()"
  added,               \* messages passed to addMessage since construction / clear()
  nextId,              \* identity of the next message object
  now,                 \* Date.now()
  last,                \* what the latest chain step did
  variant,             \* revision of realtimeConnection.ts in use
  sessionStatus,       \* App state sessionStatus
  userText,            \* App state userText
  connectionRef,       \* connectionRef.current: 0 is null, else a connection
  audioManagerRef,     \* audioManagerRef.current is set
  conns,               \* the DeepSeekConnection objects built so far
  ops,                 \* connect / sendMessage calls that have not settled
  done,                \* the call that settled latest
  nextOp,              \* identity of the next call
  nextMsg,             \* identity of the next message object of a connection
  transcriptItems,     \* TranscriptContext items
  loggedEvents,        \* the events passed to logClientEvent
  delegationMode,      \* App state delegationMode
  selectedAgentConfigSet, \* App state: key of the selected agent set, or NoSet
  selectedAgentName,   \* App state selectedAgentName
  tracker,             \* the analyticsLogger singleton
  timers,              \* handleConnect calls scheduled with setTimeout
  lastChange,          \* what the latest handleAgentChange call did
  lastUpdateRef,       \* TranscriptContext lastUpdateRef.current
  messageCounterRef,   \* TranscriptContext messageCounterRef.current
  lastTranscriptCall,  \* the latest call of a TranscriptContext function
  deltaLog,            \* the delta updates that changed an item, with their times
  utterance,           \* the content passed to analyzeContent, as its tokens
  analysisResult       \* the value analyzeContent returned, or Null

chainVars == <<maxMessages, summarizeThreshold, chain, pending, added, nextId, last>>

agentVars == <<delegationMode, selectedAgentConfigSet, selectedAgentName, tracker, timers,
               lastChange>>

transcriptRefs == <<lastUpdateRef, messageCounterRef, lastTranscriptCall, deltaLog>>

analysisVars == <<utterance, analysisResult>>

connVars == <<variant, sessionStatus, userText, connectionRef, audioManagerRef, conns,
              ops, done, nextOp, nextMsg, transcriptItems, loggedEvents,
              delegationMode, selectedAgentConfigSet, selectedAgentName, tracker, timers,
              lastChange, lastUpdateRef, messageCounterRef, lastTranscriptCall, deltaLog,
          utterance, analysisResult>>

vars == <<maxMessages, summarizeThreshold, chain, pending, added, nextId, last, now,
          variant, sessionStatus, userText, connectionRef, audioManagerRef, conns,
          ops, done, nextOp, nextMsg, transcriptItems, loggedEvents,
          delegationMode, selectedAgentConfigSet, selectedAgentName, tracker, timers,
          lastChange, lastUpdateRef, messageCounterRef, lastTranscriptCall, deltaLog,
          utterance, analysisResult>>

\* ------------------------------------------------------------------------
\* JavaScript array helpers
\* ------------------------------------------------------------------------
Min(a, b) == IF a < b THEN a ELSE b
Max(a, b) == IF a > b THEN a ELSE b

\* Array.prototype.slice(start) with a 0-based, possibly negative start.
JsSliceFrom(s, start) ==
  LET n == Len(s)
      k == IF start < 0 THEN Max(n + start, 0) ELSE Min(start, n)
  IN SubSeq(s, k + 1, n)

\* Array.prototype.findIndex(m => m.role !== "system"): 0-based, -1 if none.
FindIndexNonSystem(msgs) ==
  LET hits == {i \in 1..Len(msgs) : msgs[i].role # "system"}
  IN IF hits = {} THEN -1
     ELSE (CHOOSE i \in hits : \A j \in hits : i <= j) - 1

\* Array.prototype.filter
RECURSIVE SelectAssistant(_)
SelectAssistant(msgs) ==
  IF msgs = <<>> THEN <<>>
  ELSE IF Head(msgs).role = "assistant"
       THEN <<Head(msgs)>> \o SelectAssistant(Tail(msgs))
       ELSE SelectAssistant(Tail(msgs))

\* String.prototype.substring(0, n)
Substring0(text, n) == SubSeq(text, 1, Min(n, Len(text)))

\* ------------------------------------------------------------------------
\* ConversationMemoryChain
\* ------------------------------------------------------------------------
Msg(id, role, content) == [id |-> id, role |-> role, content |-> content]

\* options.x || dflt : 0 stands for an omitted (or zero) option.
OptionOr(opt, dflt) == IF opt = 0 THEN dflt ELSE opt

EmptyState(t) ==
  [messages |-> <<>>, summary |-> Null, keyPoints |-> <<>>, lastSummarizedAt |-> t]

\* m.content.substring(0, 100) + "..."
KeyPointOf(m) == [text |-> Substring0(m.content, KeyPointLen), tail |-> "..."]

MessagesToSummarize(st) == JsSliceFrom(st.messages, FindIndexNonSystem(st.messages))

SummarizeConversation(st, t) ==
  LET toSum == MessagesToSummarize(st)
      asst == SelectAssistant(toSum)
  IN IF Len(toSum) = 0 THEN st
     ELSE [st EXCEPT !.summary = PlaceholderSummary(Len(toSum)),
                     !.keyPoints = [i \in 1..Len(asst) |-> KeyPointOf(asst[i])],
                     !.lastSummarizedAt = t]

NeedsSummaryStrict(st, threshold) == Len(st.messages) > threshold

NeedsSummary(st, threshold) == Len(st.messages) >= threshold

TrimMessagesLate(st, cap) ==
  IF Len(st.messages) > cap + 1
  THEN [st EXCEPT !.messages = JsSliceFrom(st.messages, 0 - cap)]
  ELSE st

TrimMessagesKeepOldest(st, cap) ==
  IF Len(st.messages) > cap
  THEN [st EXCEPT !.messages = SubSeq(st.messages, 1, cap)]
  ELSE st

\* if (messages.length > maxMessages) messages = messages.slice(-maxMessages)
TrimMessages(st, cap) ==
  IF Len(st.messages) > cap
  THEN [st EXCEPT !.messages = JsSliceFrom(st.messages, 0 - cap)]
  ELSE st

PushMessage(st, m) == [st EXCEPT !.messages = Append(st.messages, m)]

NoStep == [op |-> "none"]

NoCall == [kind |-> "none"]

NoSet == "null"
NoChange == [n |-> 0, outcome |-> "none"]

\* the analyticsLogger singleton right after module load
\* tasks: the continuations of its async methods that wait in the microtask queue
NewTracker ==
  [events |-> <<>>, currentAgent |-> "", interactionPatterns |-> Null,
   activeOutcomeProjections |-> <<>>, currentScenarioContext |-> Null,
   searchHistory |-> <<>>, tasks |-> <<>>]

NoTranscriptCall == [n |-> 0, op |-> "none"]

\* The refs of the TranscriptProvider after its first render.
TranscriptIdle ==
  /\ lastUpdateRef = [id \in {} |-> 0]
  /\ messageCounterRef = 0
  /\ lastTranscriptCall = NoTranscriptCall
  /\ deltaLog = <<>>

AnalysisIdle ==
  /\ utterance = <<>>
  /\ analysisResult = Null

\* The agent-selection part of the App state after the first render.
AgentIdle ==
  /\ delegationMode = "manual"
  /\ selectedAgentConfigSet = NoSet
  /\ selectedAgentName = ""
  /\ tracker = NewTracker
  /\ timers = <<>>
  /\ lastChange = NoChange

\* The App and connection part of the state before anything is built.
ConnIdle ==
  /\ variant = "memory"
  /\ sessionStatus = "DISCONNECTED"
  /\ userText = <<>>
  /\ connectionRef = 0
  /\ audioManagerRef = FALSE
  /\ conns = <<>>
  /\ ops = {}
  /\ done = NoCall
  /\ nextOp = 1
  /\ nextMsg = 1
  /\ transcriptItems = <<>>
  /\ loggedEvents = <<>>
  /\ AgentIdle
  /\ TranscriptIdle

\* addMessage up to its first suspension point: push, then either
\* summarize and suspend at the await, or trim and return at once.
AddMessageStart(role, content) ==
  /\ nextId <= MaxAdds
  /\ LET m == Msg(nextId, role, content)
         pushed == PushMessage(chain, m)
         summ == NeedsSummary(pushed, summarizeThreshold)
     IN /\ added' = Append(added, m)
        /\ nextId' = nextId + 1
        /\ summ => Len(pending) < MaxPending
        /\ IF summ
           THEN /\ chain' = SummarizeConversation(pushed, now)
                /\ pending' = Append(pending, [call |-> m.id, read |-> pushed.messages])
                /\ last' = [op |-> "start", call |-> m.id, countAfterPush |-> Len(pushed.messages),
                            summarized |-> TRUE, read |-> pushed.messages,
                            returned |-> FALSE, before |-> pushed.messages]
           ELSE /\ chain' = TrimMessages(pushed, maxMessages)
                /\ pending' = pending
                /\ last' = [op |-> "start", call |-> m.id, countAfterPush |-> Len(pushed.messages),
                            summarized |-> FALSE, read |-> <<>>,
                            returned |-> TRUE, before |-> pushed.messages]
  /\ UNCHANGED <<maxMessages, summarizeThreshold, now>>
  /\ UNCHANGED connVars

\* The continuation after "await this.summarizeConversation()": trim, return.
AddMessageResume ==
  /\ pending # <<>>
  /\ chain' = TrimMessages(chain, maxMessages)
  /\ pending' = Tail(pending)
  /\ last' = [op |-> "resume", call |-> Head(pending).call, countAfterPush |-> Len(chain.messages),
              summarized |-> TRUE, read |-> Head(pending).read,
              returned |-> TRUE, before |-> chain.messages]
  /\ UNCHANGED <<maxMessages, summarizeThreshold, added, nextId, now>>
  /\ UNCHANGED connVars

\* getFormattedContext: the summary paragraph, then the key-point block.
\* The text is a sequence of lines; a line is a fixed heading, a text, a
\* bullet ("- " before the text) or blank.
HeadingLine(text) == [line |-> "heading", text |-> text]
TextLine(text) == [line |-> "text", text |-> text]
BulletLine(text) == [line |-> "bullet", text |-> text]
BlankLine == [line |-> "blank", text |-> ""]

SummaryBlock(st) ==
  <<HeadingLine("Previous conversation summary:"), TextLine(st.summary), BlankLine>>

KeyPointsBlock(st) ==
  <<HeadingLine("Key points discussed:")>>
  \o [i \in 1..Len(st.keyPoints) |-> BulletLine(st.keyPoints[i])]
  \o <<BlankLine>>

GetFormattedContextAlwaysHeading(st) ==
  (IF st.summary # Null THEN SummaryBlock(st) ELSE <<>>) \o KeyPointsBlock(st)

GetFormattedContext(st) ==
  (IF st.summary # Null THEN SummaryBlock(st) ELSE <<>>)
  \o (IF Len(st.keyPoints) > 0 THEN KeyPointsBlock(st) ELSE <<>>)

\* A call of getFormattedContext: it reads the state and returns the text.
GetContextText ==
  /\ last' = [op |-> "context", context |-> GetFormattedContext(chain)]
  /\ UNCHANGED <<maxMessages, summarizeThreshold, chain, pending, added, nextId, now>>
  /\ UNCHANGED connVars

Clear ==
  /\ chain # EmptyState(now)
  /\ chain' = EmptyState(now)
  /\ added' = <<>>
  /\ last' = [op |-> "clear"]
  \* message identities are reused once no message object is reachable any more
  /\ nextId' = IF pending = <<>> THEN 1 ELSE nextId
  /\ UNCHANGED <<maxMessages, summarizeThreshold, pending, now>>
  /\ UNCHANGED connVars

Tick ==
  /\ now < MaxNow
  /\ now' = now + 1
  /\ UNCHANGED chainVars /\ UNCHANGED transcriptRefs /\ UNCHANGED analysisVars
  /\ UNCHANGED connVars

AddSystem == AddMessageStart("system", ShortText)
AddUser == AddMessageStart("user", ShortText)
AddAssistant == \E c \in Contents : AddMessageStart("assistant", c)

InitChain ==
  /\ AnalysisIdle
  /\ \E optMax \in 0..MaxCap, optThr \in 0..MaxThreshold :
        /\ maxMessages = OptionOr(optMax, DefaultMaxMessages)
        /\ summarizeThreshold = OptionOr(optThr, DefaultSummarizeThreshold)
  /\ now = 0
  /\ chain = EmptyState(0)
  /\ pending = <<>>
  /\ added = <<>>
  /\ nextId = 1
  /\ last = NoStep
  /\ ConnIdle

NextChain ==
  \/ AddSystem
  \/ AddUser
  \/ AddAssistant
  \/ AddMessageResume
  \/ Clear

SpecChain == InitChain /\ [][NextChain]_vars

\* The chain driven by its operations and read by getFormattedContext.
NextContext ==
  \/ AddSystem
  \/ AddUser
  \/ AddAssistant
  \/ AddMessageResume
  \/ Clear
  \/ GetContextText

SpecContext == InitChain /\ [][NextContext]_vars

\* ------------------------------------------------------------------------
\* DeepSeekConnection
\* ------------------------------------------------------------------------
RetryMaxAttempts == 3
RetryDelayMs == 1000
RetryBackoffFactor == 2
MaxHistoryLength == 10
ConnSummarizeThreshold == 5

Variants == {"memory", "history"}

\* Outcomes of one fetch: "ok" is a 2xx answer with choices[0].message,
\* "noMessage" a 2xx JSON answer without it, "http" a non-2xx answer,
\* "network" a rejected fetch.
ConnectAnswers == {"ok", "http", "network"}
SendAnswers == {"ok", "noMessage", "http"}

\* text of the assistant message of a well-formed answer
ReplyText == LongText

\* addMessage from push to return, for a call that no other call overlaps.
AddMessageWhole(st, m, threshold, cap, t) ==
  LET pushed == PushMessage(st, m)
  IN TrimMessages(IF NeedsSummary(pushed, threshold)
                  THEN SummarizeConversation(pushed, t) ELSE pushed, cap)

NoChain == EmptyState(0)

\* constructor
NewConnection(v, sysMsg, t) ==
  [isConnected |-> FALSE,
   messageHistory |-> <<sysMsg>>,
   memory |-> IF v = "memory"
              THEN AddMessageWhole(EmptyState(t), sysMsg, ConnSummarizeThreshold, MaxHistoryLength, t)
              ELSE NoChain]

\* LANGFLOW_SYSTEM_PROMPT, a constant text of more than 100 characters
LangflowSystemMessage == Msg(0, "system", LongText)

\* disconnect()
Disconnected(c, v, t) ==
  IF v = "memory"
  THEN [c EXCEPT !.isConnected = FALSE, !.messageHistory = <<>>, !.memory = EmptyState(t)]
  ELSE [c EXCEPT !.isConnected = FALSE, !.messageHistory = <<LangflowSystemMessage>>]

\* addToHistory of the history-only revision
AddToHistory(h, m) ==
  LET p == Append(h, m)
  IN IF Len(p) > MaxHistoryLength + 1
     THEN <<p[1]>> \o JsSliceFrom(p, 0 - MaxHistoryLength)
     ELSE p

\* messageHistory.push(user, assistant) and the trim that follows it
PushTurn(h, user, assistant) ==
  LET p == h \o <<user, assistant>>
  IN IF Len(p) > MaxHistoryLength THEN JsSliceFrom(p, 0 - MaxHistoryLength) ELSE p

\* The start of sendMessage: the user message is recorded.
RecordUser(c, v, user, t) ==
  IF v = "memory"
  THEN [c EXCEPT !.memory = AddMessageWhole(c.memory, user, ConnSummarizeThreshold, MaxHistoryLength, t)]
  ELSE [c EXCEPT !.messageHistory = AddToHistory(c.messageHistory, user)]

\* The success path of sendMessage: the assistant message is recorded.
RecordAssistant(c, v, user, assistant, t) ==
  IF v = "memory"
  THEN [c EXCEPT !.memory = AddMessageWhole(c.memory, assistant, ConnSummarizeThreshold, MaxHistoryLength, t),
                 !.messageHistory = PushTurn(c.messageHistory, user, assistant)]
  ELSE [c EXCEPT !.messageHistory = AddToHistory(c.messageHistory, assistant)]

RequestMessagesContextLast(c, v, user) ==
  IF v = "memory"
  THEN c.messageHistory
       \o <<user>>
       \o <<[role |-> "system", context |-> GetFormattedContext(c.memory)]>>
  ELSE c.messageHistory

\* The messages array of the request body of one attempt.
RequestMessages(c, v, user) ==
  IF v = "memory"
  THEN c.messageHistory
       \o <<[role |-> "system", context |-> GetFormattedContext(c.memory)]>>
       \o <<user>>
  ELSE c.messageHistory

\* Does the operation passed to retryOperation throw on this answer?
OperationThrows(kind, v, answer) ==
  IF kind = "connect" THEN answer # "ok"
  ELSE IF v = "memory" THEN answer \in {"http", "network"}
  ELSE answer # "ok"

\* Does response.choices[0].message exist?
HasAssistantMessageUnchecked(answer) == TRUE

HasAssistantMessage(answer) == answer = "ok"

\* message of the error an attempt throws
ErrorMessage(kind, v, answer) ==
  CASE answer = "network" -> "Failed to fetch"
    [] answer = "noMessage" -> "Invalid response format from API"
    [] answer = "http" /\ kind = "send" /\ v = "memory" -> "API request failed"
    [] OTHER -> "API returned"

ErrorPrefix(kind, v) ==
  IF kind = "connect" THEN "Failed to connect to DeepSeek API"
  ELSE IF v = "memory" THEN "Failed to send message"
  ELSE "Failed to send message to DeepSeek"

RememberFirstError(prev, msg) == IF prev = "" THEN msg ELSE prev

\* lastError = error as Error
RememberError(prev, msg) == msg

\* lastError?.message || 'Unknown error'
OrUnknown(msg) == IF msg = "" THEN "Unknown error" ELSE msg

\* new Error(`${errorMessage} after ${maxAttempts} attempts: ${...}`)
AggregatedError(prefix, lastMessage) ==
  [prefix |-> prefix, attempts |-> RetryMaxAttempts, cause |-> OrUnknown(lastMessage)]

\* a call of retryOperation that has issued its first attempt
NewCall(id, kind, c, item, user) ==
  [id |-> id, kind |-> kind, conn |-> c, attempt |-> 1, delayMs |-> RetryDelayMs,
   waits |-> <<>>, lastError |-> "", item |-> item, user |-> user]

NoMsg == [id |-> 0]

\* ------------------------------------------------------------------------
\* App handlers
\* ------------------------------------------------------------------------
Blank == <<0>>
UserTexts == {<<>>, Blank, ShortText}

\* String.prototype.trim: 0 is the code of a whitespace character
RECURSIVE TrimLeft(_)
TrimLeft(text) ==
  IF text # <<>> /\ Head(text) = 0 THEN TrimLeft(Tail(text)) ELSE text
RECURSIVE TrimRight(_)
TrimRight(text) ==
  IF text # <<>> /\ text[Len(text)] = 0 THEN TrimRight(SubSeq(text, 1, Len(text) - 1)) ELSE text
Trim(text) == TrimRight(TrimLeft(text))

LogClientEvent(type) == loggedEvents' = Append(loggedEvents, [type |-> type])

\* updateTranscriptItemStatus
WithItemStatus(items, itemId, status) ==
  [i \in 1..Len(items) |->
     IF items[i].itemId = itemId THEN [items[i] EXCEPT !.status = status] ELSE items[i]]

\* ------------------------------------------------------------------------
\* TranscriptContext
\* ------------------------------------------------------------------------
\* Item ids: 0 stands for no id given, ids up to GeneratedBase are ids a
\* caller passes, ids above it are the ids addTranscriptMessage generates
\* (a timestamp, the role, the content hash, the counter and a uuid).
NoItemId == 0
GeneratedBase == 100
GeneratedId(counter) == GeneratedBase + counter

\* item.itemId.includes(contentHash) for an item of the same content
IdIncludesHash(itemId) == itemId > GeneratedBase

RapidWindowMs == 50
RecentWindowMs == 200

HasItem(prev, itemId) == \E i \in 1..Len(prev) : prev[i].itemId = itemId

RecentDuplicate(prev, message, timestamp) ==
  \E i \in 1..Len(prev) :
    /\ prev[i].role = message.role
    /\ prev[i].title = message.content
    /\ timestamp - prev[i].createdAtMs < RecentWindowMs
    /\ IdIncludesHash(prev[i].itemId)

NewItem(itemId, message, timestamp) ==
  [itemId |-> itemId, type |-> "MESSAGE", role |-> message.role, title |-> message.content,
   status |-> "IN_PROGRESS", createdAtMs |-> timestamp]

AddTranscriptMessageRenaming(prev, message, timestamp, counter) ==
  LET given == IF message.itemId # NoItemId THEN message.itemId ELSE GeneratedId(counter)
      itemId == IF HasItem(prev, given) THEN GeneratedId(counter) ELSE given
  IN Append(prev, NewItem(itemId, message, timestamp))

\* addTranscriptMessage: the list the state updater returns; counter is
\* messageCounterRef after its increment
AddTranscriptMessage(prev, message, timestamp, counter) ==
  LET given == IF message.itemId # NoItemId THEN message.itemId ELSE GeneratedId(counter)
      itemId == IF HasItem(prev, given) THEN GeneratedId(counter) ELSE given
  IN IF message.itemId # NoItemId /\ HasItem(prev, message.itemId) THEN prev
     ELSE IF RecentDuplicate(prev, message, timestamp) THEN prev
     ELSE Append(prev, NewItem(itemId, message, timestamp))

LastUpdateOf(ref, itemId) == IF itemId \in DOMAIN ref THEN ref[itemId] ELSE 0

IsRapidHalf(isDelta, t, lastUpdate) == isDelta /\ t - lastUpdate < RapidWindowMs \div 2

\* isDelta && now - lastUpdate < 50
IsRapid(isDelta, t, lastUpdate) == isDelta /\ t - lastUpdate < RapidWindowMs

\* the list the state updater of updateTranscriptMessage returns
WithItemText(prev, itemId, newText, isDelta, t) ==
  [i \in 1..Len(prev) |->
     IF prev[i].itemId = itemId /\ prev[i].type = "MESSAGE"
     THEN [prev[i] EXCEPT !.title = IF isDelta THEN prev[i].title \o newText ELSE newText,
                          !.createdAtMs = t]
     ELSE prev[i]]

TranscriptFrame ==
  /\ UNCHANGED <<variant, sessionStatus, userText, connectionRef, audioManagerRef, conns,
                 ops, done, nextOp, nextMsg, loggedEvents>>
  /\ UNCHANGED chainVars /\ UNCHANGED agentVars /\ UNCHANGED analysisVars

CanCallTranscript == lastTranscriptCall.n < MaxTranscriptCalls

CallAddTranscriptMessage ==
  /\ CanCallTranscript
  /\ \E role \in {"user", "assistant"}, itemId \in {NoItemId, 1, 2}, content \in {ShortText, Blank} :
       LET message == [role |-> role, content |-> content, itemId |-> itemId]
       IN /\ messageCounterRef' = messageCounterRef + 1
          /\ transcriptItems' = AddTranscriptMessage(transcriptItems, message, now,
                                                     messageCounterRef + 1)
          /\ lastTranscriptCall' = [n |-> lastTranscriptCall.n + 1, op |-> "add",
                                    itemId |-> itemId, at |-> now]
  /\ UNCHANGED <<lastUpdateRef, deltaLog, now>>
  /\ TranscriptFrame

CallUpdateTranscriptMessage ==
  /\ CanCallTranscript
  /\ \E itemId \in {1, 2}, isDelta \in BOOLEAN :
       LET lastUpdate == LastUpdateOf(lastUpdateRef, itemId)
       IN /\ lastTranscriptCall' = [n |-> lastTranscriptCall.n + 1, op |-> "update",
                                    itemId |-> itemId, isDelta |-> isDelta, at |-> now]
          /\ IF IsRapid(isDelta, now, lastUpdate)
             THEN UNCHANGED <<lastUpdateRef, transcriptItems, deltaLog>>
             ELSE /\ lastUpdateRef' = [x \in DOMAIN lastUpdateRef \cup {itemId} |->
                                         IF x = itemId THEN now ELSE lastUpdateRef[x]]
                  /\ transcriptItems' = WithItemText(transcriptItems, itemId, ShortText,
                                                     isDelta, now)
                  /\ deltaLog' = IF isDelta /\ transcriptItems' # transcriptItems
                                 THEN Append(deltaLog, [itemId |-> itemId, at |-> now])
                                 ELSE deltaLog
  /\ UNCHANGED <<messageCounterRef, now>>
  /\ TranscriptFrame

CallUpdateTranscriptItemStatus ==
  /\ CanCallTranscript
  /\ \E itemId \in {1, 2} :
       /\ transcriptItems' = WithItemStatus(transcriptItems, itemId, "DONE")
       /\ lastTranscriptCall' = [n |-> lastTranscriptCall.n + 1, op |-> "status",
                                 itemId |-> itemId, at |-> now]
  /\ UNCHANGED <<lastUpdateRef, messageCounterRef, deltaLog, now>>
  /\ TranscriptFrame

\* Date.now() at the first render, and the time that passes between calls
Epoch == 1000
TickMs == 25

Advance ==
  /\ now < Epoch + MaxTicks * TickMs
  /\ now' = now + TickMs
  /\ UNCHANGED <<transcriptItems, lastUpdateRef, messageCounterRef, lastTranscriptCall, deltaLog>>
  /\ TranscriptFrame

InitTranscript ==
  /\ AnalysisIdle
  /\ ConnIdle
  /\ maxMessages = MaxHistoryLength
  /\ summarizeThreshold = ConnSummarizeThreshold
  /\ now = Epoch
  /\ chain = EmptyState(0)
  /\ pending = <<>>
  /\ added = <<>>
  /\ nextId = 1
  /\ last = NoStep

NextTranscript ==
  \/ CallAddTranscriptMessage
  \/ CallUpdateTranscriptMessage
  \/ CallUpdateTranscriptItemStatus
  \/ Advance

SpecTranscript == InitTranscript /\ [][NextTranscript]_vars

\* the user edits the text box
TypeText ==
  /\ \E t \in UserTexts : t # userText /\ userText' = t
  /\ UNCHANGED <<variant, sessionStatus, connectionRef, audioManagerRef, conns, ops, done,
                 nextOp, nextMsg, transcriptItems, loggedEvents>>
  /\ UNCHANGED chainVars /\ UNCHANGED transcriptRefs /\ UNCHANGED analysisVars /\ UNCHANGED now /\ UNCHANGED agentVars

DefaultPrompt == ShortText

\* agent sets offered by the selector (three of the eight of agentCategories)
AgentSetKeys == {"newsAnalysis", "competitorAnalysis", "customerFeedback"}
DefaultAgentSetKey == "newsAnalysis"

\* name and instructions of newAgentSet[0]
FirstAgent(key) ==
  CASE key = "newsAnalysis" -> [name |-> "techNewsAnalyst", instructions |-> <<3>>]
    [] key = "competitorAnalysis" -> [name |-> "competitorAnalyst", instructions |-> <<4>>]
    [] OTHER -> [name |-> "feedbackAnalyst", instructions |-> <<5>>]

\* selectedAgentConfigSet?.find(a => a.name === selectedAgentName)?.instructions
\*   || "You are a helpful AI assistant."
SystemPrompt(set, name) ==
  IF set # NoSet /\ FirstAgent(set).name = name
  THEN FirstAgent(set).instructions
  ELSE DefaultPrompt

\* handleConnect up to "await connection.connect()", for the agent
\* selection captured by the closure that runs it.
\* handleConnect up to "await connection.connect()", for the agent set and
\* agent name of the render the handler belongs to
ConnectFrom(set, name) ==
  /\ sessionStatus' = "CONNECTING"
  /\ conns' = Append(conns, NewConnection(variant, Msg(nextMsg, "system", SystemPrompt(set, name)), now))
  /\ nextMsg' = nextMsg + 1
  /\ ops' = ops \cup {NewCall(nextOp, "connect", Len(conns) + 1, 0, NoMsg)}
  /\ nextOp' = nextOp + 1
  /\ UNCHANGED <<variant, userText, connectionRef, audioManagerRef, done,
                 transcriptItems, loggedEvents>>
  /\ UNCHANGED chainVars /\ UNCHANGED transcriptRefs /\ UNCHANGED analysisVars /\ UNCHANGED now

HandleConnectFrom(set, name) ==
  /\ Len(conns) < MaxConns
  /\ ConnectFrom(set, name)

\* The toolbar button offers handleConnect while the session is neither
\* connected nor connecting.
HandleConnect ==
  /\ sessionStatus = "DISCONNECTED"
  /\ HandleConnectFrom(selectedAgentConfigSet, selectedAgentName)
  /\ UNCHANGED agentVars

\* The timer set by handleAgentChange runs the handleConnect of the render
\* in which the agent was changed.
TimerFires ==
  /\ timers # <<>>
  /\ HandleConnectFrom(Head(timers).set, Head(timers).name)
  /\ timers' = Tail(timers)
  /\ UNCHANGED <<delegationMode, selectedAgentConfigSet, selectedAgentName, tracker, lastChange>>

\* handleDisconnect, offered by the toolbar button while connected
HandleDisconnect ==
  /\ sessionStatus = "CONNECTED"
  /\ conns' = IF connectionRef # 0
              THEN [conns EXCEPT ![connectionRef] = Disconnected(@, variant, now)]
              ELSE conns
  /\ connectionRef' = 0
  /\ audioManagerRef' = FALSE
  /\ sessionStatus' = "DISCONNECTED"
  /\ LogClientEvent("connection.closed")
  /\ UNCHANGED <<variant, userText, ops, done, nextOp, nextMsg, transcriptItems>>
  /\ UNCHANGED chainVars /\ UNCHANGED transcriptRefs /\ UNCHANGED analysisVars /\ UNCHANGED now /\ UNCHANGED agentVars

\* handleSendMessage up to "await connectionRef.current.sendMessage(userText)",
\* reached from the Enter key or the Send button of the transcript.
HandleSendMessage ==
  /\ sessionStatus = "CONNECTED" /\ Trim(userText) # <<>>
  /\ Trim(userText) # <<>> /\ connectionRef # 0 /\ conns[connectionRef].isConnected
  /\ Len(transcriptItems) < MaxSends
  /\ LET user == Msg(nextMsg, "user", userText)
         c == RecordUser(conns[connectionRef], variant, user, now)
     IN /\ conns' = [conns EXCEPT ![connectionRef] = c]
        /\ ops' = ops \cup {NewCall(nextOp, "send", connectionRef, nextOp, user)}
  /\ messageCounterRef' = messageCounterRef + 1
  /\ transcriptItems' = AddTranscriptMessage(transcriptItems,
        [role |-> "user", content |-> userText, itemId |-> nextOp], now, messageCounterRef + 1)
  /\ LogClientEvent("USER_MESSAGE_SENT")
  /\ nextOp' = nextOp + 1
  /\ nextMsg' = nextMsg + 1
  /\ UNCHANGED <<variant, sessionStatus, userText, connectionRef, audioManagerRef, done>>
  /\ UNCHANGED <<lastUpdateRef, lastTranscriptCall, deltaLog>>
  /\ UNCHANGED chainVars /\ UNCHANGED now /\ UNCHANGED agentVars /\ UNCHANGED analysisVars

Settled(o, result, answer, err) ==
  [id |-> o.id, kind |-> o.kind, conn |-> o.conn, result |-> result, attempts |-> o.attempt,
   waits |-> o.waits, answer |-> answer, error |-> err, user |-> o.user]

\* An attempt throws before the last one: retryOperation keeps the error,
\* sleeps delayMs, multiplies the delay and issues the next attempt.  Nothing
\* outside the call observes the sleep, so the iteration is one step.
AttemptFails ==
  \E o \in ops :
    \E answer \in (IF o.kind = "connect" THEN ConnectAnswers ELSE SendAnswers) :
      /\ OperationThrows(o.kind, variant, answer)
      /\ o.attempt # RetryMaxAttempts
      /\ ops' = (ops \ {o}) \cup
                  {[o EXCEPT !.lastError = RememberError(o.lastError,
                                              ErrorMessage(o.kind, variant, answer)),
                             !.waits = Append(o.waits, o.delayMs),
                             !.delayMs = o.delayMs * RetryBackoffFactor,
                             !.attempt = o.attempt + 1]}
      /\ UNCHANGED <<variant, sessionStatus, userText, connectionRef, audioManagerRef, conns,
                     done, nextOp, nextMsg, transcriptItems, loggedEvents>>
      /\ UNCHANGED chainVars /\ UNCHANGED transcriptRefs /\ UNCHANGED analysisVars /\ UNCHANGED now /\ UNCHANGED agentVars

\* connect() succeeds and handleConnect runs to its end.
ConnectSucceeds ==
  \E o \in ops :
    /\ o.kind = "connect"
    /\ ~OperationThrows("connect", variant, "ok")
    /\ conns' = [conns EXCEPT ![o.conn].isConnected = TRUE]
    /\ connectionRef' = o.conn
    /\ audioManagerRef' = TRUE
    /\ sessionStatus' = "CONNECTED"
    /\ LogClientEvent("connection.established")
    /\ ops' = ops \ {o}
    /\ done' = Settled(o, "ok", "ok", NoCall)
    /\ UNCHANGED <<variant, userText, nextOp, nextMsg, transcriptItems>>
    /\ UNCHANGED chainVars /\ UNCHANGED transcriptRefs /\ UNCHANGED analysisVars /\ UNCHANGED now /\ UNCHANGED agentVars

\* The last attempt of connect() throws: handleConnect catches the error.
ConnectExhausted ==
  \E o \in ops :
    \E answer \in ConnectAnswers :
      /\ o.kind = "connect"
      /\ OperationThrows("connect", variant, answer)
      /\ o.attempt = RetryMaxAttempts
      /\ sessionStatus' = "DISCONNECTED"
      /\ LogClientEvent("connection.error")
      /\ ops' = ops \ {o}
      /\ done' = Settled(o, "exhausted", answer,
                         AggregatedError(ErrorPrefix("connect", variant),
                                         RememberError(o.lastError,
                                             ErrorMessage("connect", variant, answer))))
      /\ UNCHANGED <<variant, userText, connectionRef, audioManagerRef, conns,
                     nextOp, nextMsg, transcriptItems>>
      /\ UNCHANGED chainVars /\ UNCHANGED transcriptRefs /\ UNCHANGED analysisVars /\ UNCHANGED now /\ UNCHANGED agentVars

\* The tail of handleSendMessage after a failed send.
SendFailed(o) ==
  /\ transcriptItems' = WithItemStatus(transcriptItems, o.item, "DONE")
  /\ LogClientEvent("USER_MESSAGE_ERROR")
  /\ userText' = <<>>
  /\ ops' = ops \ {o}

\* An attempt of sendMessage returns an answer.
SendAnswered ==
  \E o \in ops :
    \E answer \in SendAnswers :
      /\ o.kind = "send"
      /\ ~OperationThrows("send", variant, answer)
      /\ IF HasAssistantMessage(answer)
         THEN /\ conns' = [conns EXCEPT ![o.conn] =
                             RecordAssistant(@, variant, o.user,
                                             Msg(nextMsg, "assistant", ReplyText), now)]
              /\ nextMsg' = nextMsg + 1
              /\ transcriptItems' = WithItemStatus(transcriptItems, o.item, "DONE")
              /\ userText' = <<>>
              /\ ops' = ops \ {o}
              /\ done' = Settled(o, "ok", answer, NoCall)
              /\ UNCHANGED loggedEvents
         ELSE /\ SendFailed(o)
              /\ done' = Settled(o, "fatal", answer, [type |-> "TypeError"])
              /\ UNCHANGED <<conns, nextMsg>>
      /\ UNCHANGED <<variant, sessionStatus, connectionRef, audioManagerRef, nextOp>>
      /\ UNCHANGED chainVars /\ UNCHANGED transcriptRefs /\ UNCHANGED analysisVars /\ UNCHANGED now /\ UNCHANGED agentVars

\* The last attempt of sendMessage throws.
SendExhausted ==
  \E o \in ops :
    \E answer \in SendAnswers :
      /\ o.kind = "send"
      /\ OperationThrows("send", variant, answer)
      /\ o.attempt = RetryMaxAttempts
      /\ SendFailed(o)
      /\ done' = Settled(o, "exhausted", answer,
                         AggregatedError(ErrorPrefix("send", variant),
                                         RememberError(o.lastError,
                                             ErrorMessage("send", variant, answer))))
      /\ UNCHANGED <<variant, sessionStatus, connectionRef, audioManagerRef, conns,
                     nextOp, nextMsg>>
      /\ UNCHANGED chainVars /\ UNCHANGED transcriptRefs /\ UNCHANGED analysisVars /\ UNCHANGED now /\ UNCHANGED agentVars

InitConn ==
  /\ AnalysisIdle
  /\ variant \in Variants
  /\ sessionStatus = "DISCONNECTED"
  /\ userText = <<>>
  /\ connectionRef = 0
  /\ audioManagerRef = FALSE
  /\ conns = <<>>
  /\ ops = {}
  /\ done = NoCall
  /\ nextOp = 1
  /\ nextMsg = 1
  /\ transcriptItems = <<>>
  /\ loggedEvents = <<>>
  /\ AgentIdle
  /\ TranscriptIdle
  /\ maxMessages = MaxHistoryLength
  /\ summarizeThreshold = ConnSummarizeThreshold
  /\ now = 0
  /\ chain = EmptyState(0)
  /\ pending = <<>>
  /\ added = <<>>
  /\ nextId = 1
  /\ last = NoStep

NextConn ==
  \/ TypeText
  \/ HandleConnect
  \/ HandleDisconnect
  \/ HandleSendMessage
  \/ AttemptFails
  \/ ConnectSucceeds
  \/ ConnectExhausted
  \/ SendAnswered
  \/ SendExhausted

SpecConn == InitConn /\ [][NextConn]_vars

\* ------------------------------------------------------------------------
\* analyticsLogger: text analysis
\* ------------------------------------------------------------------------
\* An utterance is the sequence of its lower-case whitespace-separated
\* tokens; a question mark is written as a token of its own.
Interrogatives == {"how", "what", "why", "when", "where"}
VagueWords == {"any", "some", "maybe", "possibly", "about"}
TemporalWords == {"before", "after", "previous", "last", "next", "again"}
RecallWords == {"remember", "recall", "mentioned", "earlier", "said"}

DomainNames == <<"philosophical", "research", "development", "interaction">>

Keywords(d) ==
  CASE d = "philosophical" -> {"principle", "foundation", "methodology", "paradigm",
                               "framework", "nature", "practical", "empirical"}
    [] d = "research" -> {"analysis", "investigation", "observation", "pattern", "evidence",
                          "methodology", "demonstration"}
    [] d = "development" -> {"implementation", "iteration", "growth", "evolution",
                             "adaptation", "refinement"}
    [] OTHER -> {"conversation", "dialogue", "exchange", "communication", "understanding",
                 "context"}

UncertaintyIndicators(d) ==
  CASE d = "philosophical" -> {"assumption", "bias", "interpretation", "perspective",
                               "context-dependent"}
    [] d = "research" -> {"preliminary", "hypothesis", "potential", "indication", "suggests"}
    [] d = "development" -> {"constraint", "dependency", "limitation", "requirement"}
    [] OTHER -> {"ambiguity", "misalignment", "confusion", "unclear"}

\* content.length: the tokens and the single spaces between them
RECURSIVE ContentLength(_)
ContentLength(content) ==
  IF content = <<>> THEN 0
  ELSE Len(Head(content)) + (IF Len(content) > 1 THEN 1 ELSE 0) + ContentLength(Tail(content))

HasAny(content, tokens) == \E i \in 1..Len(content) : content[i] \in tokens

IntentAmbiguity ==
  [type |-> "intent", description |-> "Unclear specificity in information request",
   impactLevel |-> "medium"]
ReferenceAmbiguity ==
  [type |-> "reference", description |-> "Reference to previous context", impactLevel |-> "high"]
SemanticAmbiguity(d) ==
  [type |-> "semantic", description |-> <<"Uncertainty in domain", d>>, impactLevel |-> "medium"]

ConversationDependency ==
  [type |-> "conversation_context", relevance |-> "critical", timeframe |-> "current_session",
   confidence |-> 90]
PriorInteractionDependency ==
  [type |-> "prior_interaction", relevance |-> "critical", timeframe |-> "recent",
   confidence |-> 80]
DomainKnowledgeDependency ==
  [type |-> "domain_knowledge", relevance |-> "critical", timeframe |-> "historical",
   confidence |-> 85]

\* the semantic ambiguity factors one word adds, in the order of the domains
RECURSIVE SemanticOfWord(_, _)
SemanticOfWord(word, k) ==
  IF k > Len(DomainNames) THEN <<>>
  ELSE (IF word \in UncertaintyIndicators(DomainNames[k])
        THEN <<SemanticAmbiguity(DomainNames[k])>> ELSE <<>>)
       \o SemanticOfWord(word, k + 1)

RECURSIVE SemanticOfWords(_)
SemanticOfWords(words) ==
  IF words = <<>> THEN <<>>
  ELSE SemanticOfWord(Head(words), 1) \o SemanticOfWords(Tail(words))

Weight(words, d) == Cardinality({i \in 1..Len(words) : words[i] \in Keywords(d)})

\* the first domain of the highest weight above 0, "general" when there is none
RECURSIVE BestDomain(_, _, _, _)
BestDomain(words, k, maxWeight, domain) ==
  IF k > Len(DomainNames) THEN domain
  ELSE IF Weight(words, DomainNames[k]) > maxWeight
       THEN BestDomain(words, k + 1, Weight(words, DomainNames[k]), DomainNames[k])
       ELSE BestDomain(words, k + 1, maxWeight, domain)

LengthFactor(length) == IF length > 100 THEN 2 ELSE IF length > 50 THEN 1 ELSE 0

MultipleIntents(n) == IF n > 2 THEN 2 ELSE IF n > 1 THEN 1 ELSE 0

ComplexityOfAboveFour(score) ==
  IF score > 4 THEN "high" ELSE IF score >= 2 THEN "medium" ELSE "low"

ComplexityOf(score) ==
  IF score >= 4 THEN "high" ELSE IF score >= 2 THEN "medium" ELSE "low"

\* analyzeContent
AnalyzeContent(content) ==
  LET asks == HasAny(content, {"?"}) \/ HasAny(content, Interrogatives)
      recalls == HasAny(content, RecallWords)
      intents == IF asks THEN <<"information_seeking">> ELSE <<>>
      ambiguityFactors ==
        (IF asks /\ HasAny(content, VagueWords) THEN <<IntentAmbiguity>> ELSE <<>>)
        \o (IF recalls THEN <<ReferenceAmbiguity>> ELSE <<>>)
        \o SemanticOfWords(content)
      domain == BestDomain(content, 1, 0, "general")
      score == LengthFactor(ContentLength(content))
               + MultipleIntents(Len(intents))
               + (IF domain # "general" THEN 1 ELSE 0)
               + (IF \E i \in 1..Len(intents) : intents[i] = "temporal_request" THEN 1 ELSE 0)
               + Len(ambiguityFactors)
      complexity == ComplexityOf(score)
  IN [intents |-> intents, domain |-> domain, complexity |-> complexity,
      ambiguityFactors |-> ambiguityFactors,
      memoryDependencies |->
        (IF HasAny(content, TemporalWords) THEN <<ConversationDependency>> ELSE <<>>)
        \o (IF recalls THEN <<PriorInteractionDependency>> ELSE <<>>)
        \o (IF complexity = "high" THEN <<DomainKnowledgeDependency>> ELSE <<>>)]

\* deriveRequiredCapabilities: the capabilities in the order of their insertion
DeriveRequiredCapabilities(analysis) ==
  <<"contextual_understanding", "bias_recognition">>
  \o (CASE analysis.domain = "philosophical" ->
             <<"principle_extraction", "methodology_assessment", "paradigm_analysis">>
        [] analysis.domain = "research" ->
             <<"pattern_recognition", "evidence_evaluation", "hypothesis_formation">>
        [] analysis.domain = "development" ->
             <<"iterative_refinement", "growth_assessment", "adaptation_planning">>
        [] analysis.domain = "interaction" ->
             <<"context_preservation", "ambiguity_resolution", "continuity_maintenance">>
        [] OTHER -> <<>>)
  \o (IF analysis.complexity = "high"
      THEN <<"deep_pattern_analysis", "bias_mitigation", "extrapolation_management",
             "external_knowledge_integration", "source_validation">>
      ELSE <<>>)

\* the context updateScenarioContext builds from an analysis
ScenarioContextOf(analysis) ==
  [domain |-> analysis.domain, intent |-> analysis.intents, complexity |-> analysis.complexity,
   requiredCapabilities |-> DeriveRequiredCapabilities(analysis)]

\* ------------------------------------------------------------------------
\* analyzeContent applied to one utterance
\* ------------------------------------------------------------------------
MaxWords == 4

Filler50 == "xxxxxxxxxxxxxxxxxxxxxxxxxxxxxxxxxxxxxxxxxxxxxxxxxx"
Filler49 == "yyyyyyyyyyyyyyyyyyyyyyyyyyyyyyyyyyyyyyyyyyyyyyyyy"

Vocabulary ==
  {"?", "what", "about", "please", "analysis", "remember", "assumption", Filler50, Filler49}

AnalysisInputs == UNION {[1..n -> Vocabulary] : n \in 1..MaxWords}

CallAnalyzeContent ==
  /\ analysisResult = Null
  /\ analysisResult' = AnalyzeContent(utterance)
  /\ UNCHANGED utterance
  /\ UNCHANGED <<variant, sessionStatus, userText, connectionRef, audioManagerRef, conns,
                 ops, done, nextOp, nextMsg, transcriptItems, loggedEvents>>
  /\ UNCHANGED chainVars /\ UNCHANGED agentVars /\ UNCHANGED transcriptRefs /\ UNCHANGED now

InitAnalysis ==
  /\ utterance \in AnalysisInputs
  /\ analysisResult = Null
  /\ ConnIdle
  /\ maxMessages = MaxHistoryLength
  /\ summarizeThreshold = ConnSummarizeThreshold
  /\ now = 0
  /\ chain = EmptyState(0)
  /\ pending = <<>>
  /\ added = <<>>
  /\ nextId = 1
  /\ last = NoStep

NextAnalysis == CallAnalyzeContent

SpecAnalysis == InitAnalysis /\ [][NextAnalysis]_vars

\* utterances the tracker is driven with
Utterances ==
  {<<"hello">>,
   <<"what", "about", "analysis", "?">>,
   <<"remember", "assumption", "methodology", "confusion">>}

\* ------------------------------------------------------------------------
\* analyticsLogger and handleAgentChange
\* ------------------------------------------------------------------------
\* The high-impact ambiguity factors of the scenario context, as
\* determineSearchNeeds reads them.
UncertaintyAreas(tr) ==
  LET ctx == tr.currentScenarioContext
  IN IF ctx # Null /\ "ambiguityFactors" \in DOMAIN ctx
     THEN [i \in 1..Len(SelectSeq(ctx.ambiguityFactors, LAMBDA f : f.impactLevel = "high")) |->
             SelectSeq(ctx.ambiguityFactors, LAMBDA f : f.impactLevel = "high")[i].description]
     ELSE <<>>

\* interactionPatterns?.knowledgeRequirements.uncertaintyAreas throws a
\* TypeError when a pattern without knowledgeRequirements is set.
SearchNeedsThrows(tr) ==
  /\ tr.interactionPatterns # Null
  /\ "knowledgeRequirements" \notin DOMAIN tr.interactionPatterns

RelevantPatterns(tr) ==
  LET p == tr.interactionPatterns
  IN IF p # Null /\ "uncertaintyAreas" \in DOMAIN p.knowledgeRequirements
     THEN LET high == SelectSeq(p.knowledgeRequirements.uncertaintyAreas,
                                LAMBDA a : a.impact = "high")
          IN [i \in 1..Len(high) |-> high[i].reason]
     ELSE <<>>

\* determineSearchNeeds when it does not throw: the reasoning, or Null
DetermineSearchNeeds(tr) ==
  IF Len(UncertaintyAreas(tr)) > 0 \/ Len(RelevantPatterns(tr)) > 0
  THEN [uncertaintyAreas |-> UncertaintyAreas(tr), relevantPatterns |-> RelevantPatterns(tr),
        steps |-> <<1>> \o (IF Len(UncertaintyAreas(tr)) > 0 THEN <<2>> ELSE <<>>)
                        \o (IF Len(RelevantPatterns(tr)) > 0 THEN <<3>> ELSE <<>>)]
  ELSE Null

\* processEvent up to its await: determineSearchNeeds runs to its end; the
\* rest of processEvent waits as a task when there is reasoning to log, and
\* has nothing to do when the result is null or the promise is rejected.
ProcessEvent(tr) ==
  IF SearchNeedsThrows(tr) \/ DetermineSearchNeeds(tr) = Null THEN tr
  ELSE [tr EXCEPT !.searchHistory = Append(@, DetermineSearchNeeds(tr)),
                  !.tasks = Append(@, [kind |-> "search",
                                       reasoning |-> DetermineSearchNeeds(tr)])]

\* addEvent
AddEvent(tr, category, type, data) ==
  ProcessEvent([tr EXCEPT !.events = Append(@,
     [category |-> category, type |-> type, data |-> data,
      metadata |-> [agentName |-> tr.currentAgent,
                    contextualGoals |-> [i \in 1..Len(tr.activeOutcomeProjections) |->
                                           tr.activeOutcomeProjections[i].immediateGoal],
                    scenarioContext |-> tr.currentScenarioContext]])])

LogSystemEvent(tr, type, data) == AddEvent(tr, "system", type, data)

\* logInteraction adds the current pattern to the data
LogInteraction(tr, type, data) ==
  AddEvent(tr, "interaction", type, [data |-> data, patterns |-> tr.interactionPatterns])

\* logOutcome adds the projection array itself, not a copy of it
LogOutcome(tr, type, data) ==
  AddEvent(tr, "outcome", type,
           [data |-> data, activeProjections |-> [ref |-> "activeOutcomeProjections"]])

SetCurrentAgent(tr, agent) ==
  LogSystemEvent([tr EXCEPT !.currentAgent = agent.name], "agent_context_updated",
                 [agentName |-> agent.name])

AddOutcomeProjectionLoggedFirst(tr, projection) ==
  LET t1 == LogOutcome(tr, "projection_added",
                       [newProjection |-> projection,
                        totalProjections |-> Len(tr.activeOutcomeProjections)])
  IN [t1 EXCEPT !.activeOutcomeProjections = Append(@, projection)]

AddOutcomeProjection(tr, projection) ==
  LET t1 == [tr EXCEPT !.activeOutcomeProjections = Append(@, projection)]
  IN LogOutcome(t1, "projection_added",
                [newProjection |-> projection,
                 totalProjections |-> Len(t1.activeOutcomeProjections)])

\* { ...old, ...patch }: a pattern is a function from its top-level fields
SpreadDeep(old, patch) ==
  [f \in (IF old = Null THEN {} ELSE DOMAIN old) \cup DOMAIN patch |->
     IF f \notin DOMAIN patch THEN old[f]
     ELSE IF old # Null /\ f \in DOMAIN old /\ f = "knowledgeRequirements"
     THEN [g \in DOMAIN old[f] \cup DOMAIN patch[f] |->
             IF g \in DOMAIN patch[f] THEN patch[f][g] ELSE old[f][g]]
     ELSE patch[f]]

Spread(old, patch) ==
  [f \in (IF old = Null THEN {} ELSE DOMAIN old) \cup DOMAIN patch |->
     IF f \in DOMAIN patch THEN patch[f] ELSE old[f]]

\* updateInteractionPatterns
UpdateInteractionPatterns(tr, patch) ==
  LET t1 == [tr EXCEPT !.interactionPatterns = Spread(tr.interactionPatterns, patch)]
  IN LogInteraction(t1, "patterns_updated",
                    [newPatterns |-> patch, fullPatterns |-> t1.interactionPatterns])

\* updateScenarioContext up to its await: the analysis is made and the
\* capabilities are derived; the assignment and the event wait as a task.
UpdateScenarioContextStart(tr, content) ==
  [tr EXCEPT !.tasks = Append(@, [kind |-> "context", analysis |-> AnalyzeContent(content)])]

\* updateScenarioContext after its await
UpdateScenarioContextResume(tr, analysis) ==
  LET t1 == [tr EXCEPT !.currentScenarioContext = ScenarioContextOf(analysis)]
  IN LogSystemEvent(t1, "scenario_context_updated",
                    [previousContext |-> t1.currentScenarioContext, analysis |-> analysis])

\* processEvent after its await
ProcessEventResume(tr, reasoning) ==
  LogSystemEvent(tr, "search_reasoning_generated",
                 [reasoning |-> reasoning,
                  context |-> [scenarioContext |-> tr.currentScenarioContext,
                               interactionPatterns |-> tr.interactionPatterns]])

InsufficientContext ==
  [suggestedAgents |-> <<>>,
   reasoning |-> <<"Insufficient context for delegation suggestions">>,
   confidence |-> 0, contextMatch |-> <<>>]

GetDelegationSuggestionsContextOnly(tr) ==
  IF tr.currentScenarioContext = Null THEN InsufficientContext
  ELSE [suggestedAgents |-> <<>>, reasoning |-> <<>>, confidence |-> 0, contextMatch |-> <<>>]

\* getDelegationSuggestions; confidence and scores in hundredths
GetDelegationSuggestions(tr) ==
  IF tr.currentScenarioContext = Null \/ tr.interactionPatterns = Null
  THEN InsufficientContext
  ELSE [suggestedAgents |-> <<>>,
        reasoning |-> <<"Delegation suggestion logic not yet implemented">>,
        confidence |-> 0, contextMatch |-> <<>>]

\* Advisor outputs the gate is exercised with: the output of the advisor
\* above, two outputs that meet every condition and one output at each of
\* the thresholds 0.95, 3 and 0.9.
Reasons(n) == [i \in 1..n |-> "reason"]
Suggestion(c, n, m) ==
  [suggestedAgents |-> <<>>, reasoning |-> Reasons(n), confidence |-> c, contextMatch |-> m]
SuggestionInputs ==
  {GetDelegationSuggestions(NewTracker),
   Suggestion(96, 3, <<91, 91>>), Suggestion(96, 3, <<>>),
   Suggestion(95, 3, <<91, 91>>), Suggestion(96, 2, <<91, 91>>),
   Suggestion(96, 3, <<91, 90>>)}

GatePassesAtBoundary(s) ==
  /\ s.confidence >= 95
  /\ Len(s.reasoning) >= 3
  /\ \A i \in 1..Len(s.contextMatch) : s.contextMatch[i] >= 90

\* hasHighConfidence && hasMultipleReasons && hasContextMatch
GatePasses(s) ==
  /\ s.confidence > 95
  /\ Len(s.reasoning) >= 3
  /\ \A i \in 1..Len(s.contextMatch) : s.contextMatch[i] > 90

\* agentSetKey: searchParams.get("agentConfig") || defaultAgentSetKey
AgentSetKey == DefaultAgentSetKey

InitialProjection(agent) ==
  [immediateGoal |-> "Initialize new agent interaction", contextualGoals |-> <<agent.name>>]

RejectionEventBare(s) ==
  [type |-> "agent_change_rejected",
   details |-> [confidence |-> 0, reasonCount |-> 0, contextMatch |-> <<>>]]

\* the event handleAgentChange logs when the gate rejects
RejectionEvent(s) ==
  [type |-> "agent_change_rejected",
   details |-> [confidence |-> s.confidence, reasonCount |-> Len(s.reasoning),
                contextMatch |-> s.contextMatch]]

\* handleAgentChange for the selection `key`, `s` being what
\* getDelegationSuggestions returns to it.
HandleAgentChangeWith(s, key) ==
  /\ lastChange.n < MaxAgentChanges
  /\ IF delegationMode = "auto" /\ ~GatePasses(s)
     THEN /\ loggedEvents' = Append(loggedEvents, RejectionEvent(s))
          /\ lastChange' = [n |-> lastChange.n + 1, outcome |-> "rejected",
                            mode |-> delegationMode, key |-> key, suggestions |-> s]
          /\ UNCHANGED <<sessionStatus, connectionRef, audioManagerRef, conns,
                         selectedAgentConfigSet, selectedAgentName, tracker, timers>>
     ELSE IF key = AgentSetKey \/ key \notin AgentSetKeys
     THEN /\ lastChange' = [n |-> lastChange.n + 1,
                            outcome |-> IF key = AgentSetKey THEN "same" ELSE "notFound",
                            mode |-> delegationMode, key |-> key, suggestions |-> s]
          /\ UNCHANGED <<sessionStatus, connectionRef, audioManagerRef, conns, loggedEvents,
                         selectedAgentConfigSet, selectedAgentName, tracker, timers>>
     ELSE LET agent == FirstAgent(key)
              wasConnected == sessionStatus = "CONNECTED"
          IN /\ conns' = IF wasConnected /\ connectionRef # 0
                         THEN [conns EXCEPT ![connectionRef] = Disconnected(@, variant, now)]
                         ELSE conns
             /\ connectionRef' = IF wasConnected THEN 0 ELSE connectionRef
             /\ audioManagerRef' = IF wasConnected THEN FALSE ELSE audioManagerRef
             /\ sessionStatus' = IF wasConnected THEN "DISCONNECTED" ELSE sessionStatus
             /\ selectedAgentConfigSet' = key
             /\ selectedAgentName' = agent.name
             /\ tracker' = AddOutcomeProjection(SetCurrentAgent(tracker, agent),
                                                InitialProjection(agent))
             /\ timers' = Append(timers, [set |-> selectedAgentConfigSet,
                                          name |-> selectedAgentName])
             /\ loggedEvents' = loggedEvents
                  \o (IF wasConnected THEN <<[type |-> "connection.closed"]>> ELSE <<>>)
                  \o <<[type |-> "agent_set_changed", agentSetKey |-> key,
                        agentName |-> agent.name]>>
             /\ lastChange' = [n |-> lastChange.n + 1, outcome |-> "switched",
                               mode |-> delegationMode, key |-> key, suggestions |-> s]
  /\ UNCHANGED <<variant, userText, ops, done, nextOp, nextMsg, transcriptItems, delegationMode>>
  /\ UNCHANGED chainVars /\ UNCHANGED transcriptRefs /\ UNCHANGED analysisVars /\ UNCHANGED now

\* The gate applied to any output the advisor may hand to it.
\* getCurrentAgentSetKey, the value the selector displays
GetCurrentAgentSetKey ==
  IF selectedAgentConfigSet = NoSet THEN AgentSetKey ELSE selectedAgentConfigSet

\* The selector fires onChange for an option other than the displayed one.
SelectableKeys == AgentSetKeys \ {GetCurrentAgentSetKey}

HandleAgentChangeGate ==
  \E s \in SuggestionInputs, key \in SelectableKeys : HandleAgentChangeWith(s, key)

\* onDelegationModeChange of the analytics tab
SetDelegationMode ==
  /\ delegationMode' = IF delegationMode = "manual" THEN "auto" ELSE "manual"
  /\ UNCHANGED <<selectedAgentConfigSet, selectedAgentName, tracker, timers, lastChange>>
  /\ UNCHANGED <<variant, sessionStatus, userText, connectionRef, audioManagerRef, conns,
                 ops, done, nextOp, nextMsg, transcriptItems, loggedEvents>>
  /\ UNCHANGED chainVars /\ UNCHANGED transcriptRefs /\ UNCHANGED analysisVars /\ UNCHANGED now

NextGate ==
  \/ SetDelegationMode
  \/ HandleAgentChangeGate
  \/ HandleConnect
  \/ TimerFires
  \/ HandleDisconnect
  \/ ConnectSucceeds

SpecGate == InitConn /\ [][NextGate]_vars

\* ------------------------------------------------------------------------
\* The session: agent changes, connects, their timers and their outcomes
\* ------------------------------------------------------------------------
MaxSessionConns == 2

SessionAgentChange ==
  \E key \in SelectableKeys : HandleAgentChangeWith(GetDelegationSuggestions(tracker), key)

SessionConnect ==
  /\ sessionStatus = "DISCONNECTED"
  /\ Len(conns) < MaxSessionConns
  /\ ConnectFrom(selectedAgentConfigSet, selectedAgentName)
  /\ UNCHANGED agentVars

SessionTimerFires ==
  /\ timers # <<>>
  /\ Len(conns) < MaxSessionConns
  /\ ConnectFrom(Head(timers).set, Head(timers).name)
  /\ timers' = Tail(timers)
  /\ UNCHANGED <<delegationMode, selectedAgentConfigSet, selectedAgentName, tracker, lastChange>>

NextSession ==
  \/ SessionAgentChange
  \/ SessionConnect
  \/ SessionTimerFires
  \/ HandleDisconnect
  \/ ConnectSucceeds
  \/ AttemptFails
  \/ ConnectExhausted

SpecSession == InitConn /\ [][NextSession]_vars

\* ------------------------------------------------------------------------
\* The tracker driven by any sequence of calls of its operations
\* ------------------------------------------------------------------------
\* patches passed to updateInteractionPatterns
Patches ==
  {[primaryIntent |-> "learn"],
   [knowledgeRequirements |-> [domains |-> <<"ai">>, depth |-> "deep"]],
   [knowledgeRequirements |->
      [depth |-> "surface",
       uncertaintyAreas |-> <<[domain |-> "ai", reason |-> "gap", impact |-> "high"]>>]],
   [primaryIntent |-> "compare", interactionStyle |-> [formality |-> "casual"]]}

\* agents passed to setCurrentAgent
TrackerAgents == {FirstAgent("newsAnalysis")}

\* projections passed to addOutcomeProjection
TrackerProjections ==
  {InitialProjection(FirstAgent("newsAnalysis")),
   [immediateGoal |-> "Compare competitors", contextualGoals |-> <<"competitorAnalyst">>]}

TrackerStep(tr) ==
  /\ tracker' = tr
  /\ UNCHANGED <<delegationMode, selectedAgentConfigSet, selectedAgentName, timers, lastChange>>
  /\ UNCHANGED <<variant, sessionStatus, userText, connectionRef, audioManagerRef, conns,
                 ops, done, nextOp, nextMsg, transcriptItems, loggedEvents>>
  /\ UNCHANGED chainVars /\ UNCHANGED transcriptRefs /\ UNCHANGED analysisVars /\ UNCHANGED now

CanLog == Len(tracker.events) < MaxEvents

CallSetCurrentAgent ==
  /\ CanLog
  /\ \E agent \in TrackerAgents : TrackerStep(SetCurrentAgent(tracker, agent))

CallUpdateInteractionPatterns ==
  /\ CanLog
  /\ \E patch \in Patches : TrackerStep(UpdateInteractionPatterns(tracker, patch))

CallAddOutcomeProjection ==
  /\ CanLog
  /\ \E projection \in TrackerProjections :
       TrackerStep(AddOutcomeProjection(tracker, projection))

CallUpdateScenarioContext ==
  /\ Len(tracker.tasks) < MaxTasks
  /\ \E content \in Utterances : TrackerStep(UpdateScenarioContextStart(tracker, content))

\* The oldest waiting continuation runs.
RunTask ==
  /\ tracker.tasks # <<>>
  /\ CanLog
  /\ LET task == Head(tracker.tasks)
         rest == [tracker EXCEPT !.tasks = Tail(@)]
     IN TrackerStep(IF task.kind = "context"
                    THEN UpdateScenarioContextResume(rest, task.analysis)
                    ELSE ProcessEventResume(rest, task.reasoning))

InitTracker == InitConn /\ variant = "memory"

NextTracker ==
  \/ CallSetCurrentAgent
  \/ CallUpdateInteractionPatterns
  \/ CallAddOutcomeProjection
  \/ CallUpdateScenarioContext
  \/ RunTask

SpecTracker == InitTracker /\ [][NextTracker]_vars

\* ------------------------------------------------------------------------
\* Properties of ConversationMemoryChain (checked under SpecChain)
\* ------------------------------------------------------------------------
AllSystem(msgs) == \A i \in 1..Len(msgs) : msgs[i].role = "system"
Ids(msgs) == {msgs[i].id : i \in 1..Len(msgs)}
LastN(s, n) == SubSeq(s, Len(s) - Min(n, Len(s)) + 1, Len(s))
AddReturned == last.op \in {"start", "resume"} /\ last.returned

\* C1: each time an addMessage call has returned, messages.length is at
\* most maxMessages.
C1_LengthWithinCap == AddReturned => Len(chain.messages) <= maxMessages

\* an addMessage call returned after dropping messages
C1_Witness ==
  /\ AddReturned
  /\ Len(last.before) > maxMessages
  /\ Len(chain.messages) = maxMessages

\* C2: in an addMessage call summarizeConversation is invoked if and only
\* if the message count after the append (before any trimming) is at least
\* summarizeThreshold.
C2_SummarizeIffThreshold ==
  last.op = "start" =>
    (last.summarized <=> last.countAfterPush >= summarizeThreshold)

\* summarization was triggered exactly at the threshold
C2_Witness ==
  /\ last.op = "start"
  /\ last.summarized
  /\ last.countAfterPush = summarizeThreshold
  /\ chain.summary # Null

\* C3: when summarization is triggered while every message of the chain has
\* role system, it is a no-op: summary and keyPoints are left as they were.
C3_NoSummaryFromSystemOnly ==
  [][ (last'.op = "start" /\ last'.summarized /\ AllSystem(last'.read))
        => (chain'.summary = chain.summary /\ chain'.keyPoints = chain.keyPoints) ]_vars

\* C4: when the append of a call made the count exceed maxMessages, the list
\* read by that call's summarizeConversation contains the oldest message
\* that the call's trim drops.
C4_SummarySawDroppedMessage ==
  (/\ last.op = "resume"
   /\ Len(last.read) > maxMessages
   /\ Len(last.before) > maxMessages)
    => last.before[1].id \in Ids(last.read)

\* C5: once the addMessage calls made since construction or clear() have
\* returned, messages is the last min(n, maxMessages) of the n added messages,
\* in insertion order.
C5_LastAddedRetained ==
  pending = <<>> => chain.messages = LastN(added, Min(Len(added), maxMessages))

\* the cap was exceeded and the original system message was dropped
C5_Witness ==
  /\ pending = <<>>
  /\ Len(added) > maxMessages
  /\ added[1].role = "system"
  /\ chain.messages = LastN(added, maxMessages)
  /\ chain.messages[1].id > 1

\* ------------------------------------------------------------------------
\* Properties of the connection and the App handlers (checked under SpecConn)
\* ------------------------------------------------------------------------
SendsInFlight(c) == {o \in ops : o.kind = "send" /\ o.conn = c}
JustSettled == done' # done

\* the delays retryOperation has slept through before attempt n + 1
Backoff(n) ==
  [i \in 1..n |-> IF i = 1 THEN RetryDelayMs
                  ELSE IF i = 2 THEN RetryDelayMs * RetryBackoffFactor
                  ELSE RetryDelayMs * RetryBackoffFactor * RetryBackoffFactor]

\* C6: for one connection at most one sendMessage call is in flight at any
\* time: handleSendMessage starts none while an earlier one has not settled.
C6_OneSendInFlight ==
  \A c \in 1..Len(conns) : Cardinality(SendsInFlight(c)) <= 1

\* C7: retryOperation makes at most maxAttempts attempts, stops at the first
\* attempt that succeeds, sleeps delayMs, delayMs * backoffFactor, ... between
\* attempts only, and after the last failed attempt throws one error holding
\* the prefix of the operation, the attempt count and the message of the last
\* underlying error; connect and sendMessage follow the same policy.
C7_RetryPolicy ==
  /\ \A o \in ops :
       /\ o.attempt <= RetryMaxAttempts
       /\ o.waits = Backoff(o.attempt - 1)
  /\ done # NoCall =>
       /\ done.attempts <= RetryMaxAttempts
       /\ done.waits = Backoff(done.attempts - 1)
       /\ done.result = "exhausted" =>
            /\ done.attempts = RetryMaxAttempts
            /\ done.answer # "ok"
            /\ done.error.attempts = done.attempts
            /\ done.error.prefix =
                 (IF done.kind = "connect" THEN "Failed to connect to DeepSeek API"
                  ELSE IF variant = "memory" THEN "Failed to send message"
                  ELSE "Failed to send message to DeepSeek")
            /\ done.answer = "network" => done.error.cause = "Failed to fetch"
            /\ done.answer = "noMessage" => done.error.cause = "Invalid response format from API"
            /\ done.answer = "http" => done.error.cause \in {"API returned", "API request failed"}
       /\ done.result # "exhausted" => done.error \notin {AggregatedError(pre, msg) :
              pre \in {ErrorPrefix(k, v) : k \in {"connect", "send"}, v \in Variants},
              msg \in {"Failed to fetch", "Invalid response format from API",
                       "API returned", "API request failed"}}

\* a sendMessage call and a connect call each exhausted their attempts
\* after sleeping 1000 ms and 2000 ms
C7_Witness ==
  /\ done # NoCall
  /\ done.kind = "send"
  /\ done.result = "exhausted"
  /\ done.waits = <<1000, 2000>>
  /\ done.error.attempts = 3

\* C8: when connect or sendMessage has exhausted its retries, the session is
\* disconnected afterwards: the connection is not connected and
\* sessionStatus is DISCONNECTED.
C8_DisconnectedAfterExhaustion ==
  [][ (JustSettled /\ done'.result = "exhausted")
        => (sessionStatus' = "DISCONNECTED" /\ ~conns'[done'.conn].isConnected) ]_vars

UserRecorded(c, user) ==
  IF variant = "memory" THEN user.id \in Ids(c.memory.messages)
  ELSE user.id \in Ids(c.messageHistory)

PassedGate == lastChange.outcome \in {"same", "notFound", "switched"}

\* C10: in auto mode handleAgentChange lets a switch proceed only if
\* confidence > 0.95, at least 3 reasons and every contextMatch value > 0.9
\* hold together; it rejects at confidence 0.95, at 2 reasons and at a
\* contextMatch value of 0.9.
C10_AutoGate ==
  (lastChange.outcome # "none" /\ lastChange.mode = "auto") =>
    LET s == lastChange.suggestions
        cm == {s.contextMatch[i] : i \in 1..Len(s.contextMatch)}
    IN /\ PassedGate =>
            (s.confidence >= 96 /\ Len(s.reasoning) >= 3 /\ \A v \in cm : v >= 91)
       /\ (s.confidence = 95 \/ Len(s.reasoning) = 2 \/ 90 \in cm) =>
            lastChange.outcome = "rejected"

\* in auto mode a switch went through the gate and took effect
C10_Witness ==
  /\ lastChange.outcome = "switched"
  /\ lastChange.mode = "auto"
  /\ lastChange.suggestions.confidence = 96
  /\ selectedAgentConfigSet = lastChange.key

JustChanged == lastChange' # lastChange

\* C11: when the gate rejects a switch, exactly one agent_change_rejected
\* event is logged, carrying the confidence, the reasoning count and the
\* contextMatch values of the advisor's answer; the selected agent set and
\* name, the session status, the connection and the tracker stay as they were.
C11_RejectionOnlyLogs ==
  [][ (JustChanged /\ lastChange'.outcome = "rejected") =>
        LET s == lastChange'.suggestions
            e == loggedEvents'[Len(loggedEvents')]
        IN /\ Len(loggedEvents') = Len(loggedEvents) + 1
           /\ SubSeq(loggedEvents', 1, Len(loggedEvents)) = loggedEvents
           /\ e.type = "agent_change_rejected"
           /\ e.details.confidence = s.confidence
           /\ e.details.reasonCount = Len(s.reasoning)
           /\ e.details.contextMatch = s.contextMatch
           /\ UNCHANGED <<selectedAgentConfigSet, selectedAgentName, sessionStatus,
                          connectionRef, audioManagerRef, conns, tracker, timers, ops>> ]_vars

\* a connected session with an agent selected, whose change was rejected at
\* the confidence threshold
C11_Witness ==
  /\ lastChange.outcome = "rejected"
  /\ lastChange.suggestions.confidence = 95
  /\ sessionStatus = "CONNECTED"
  /\ selectedAgentConfigSet # NoSet
  /\ loggedEvents # <<>>
  /\ loggedEvents[Len(loggedEvents)].type = "agent_change_rejected"

\* C12: in manual mode every selection of a known agent set takes effect in
\* the same handler run, whatever set is currently selected, and a connected
\* session is torn down by it.
C12_ManualSwitchTakesEffect ==
  [][ (JustChanged /\ lastChange'.mode = "manual" /\ lastChange'.key \in AgentSetKeys) =>
        /\ lastChange'.outcome = "switched"
        /\ selectedAgentConfigSet' = lastChange'.key
        /\ selectedAgentName' = FirstAgent(lastChange'.key).name
        /\ sessionStatus = "CONNECTED" =>
             (sessionStatus' = "DISCONNECTED" /\ connectionRef' = 0) ]_vars

\* ------------------------------------------------------------------------
\* Properties of the analytics tracker (checked under SpecTracker)
\* ------------------------------------------------------------------------
\* C13: whenever the scenario context or the interaction pattern is null,
\* getDelegationSuggestions answers with confidence 0, no suggested agent, an
\* empty contextMatch and a non-empty reasoning list.
C13_NoContextNoSuggestion ==
  (tracker.currentScenarioContext = Null \/ tracker.interactionPatterns = Null) =>
    LET s == GetDelegationSuggestions(tracker)
    IN /\ s.confidence = 0
       /\ s.suggestedAgents = <<>>
       /\ s.contextMatch = <<>>
       /\ Len(s.reasoning) > 0

\* a context is set, no pattern is, and the advisor is asked
C13_Witness ==
  /\ tracker.currentScenarioContext # Null
  /\ tracker.interactionPatterns = Null
  /\ tracker.events # <<>>
  /\ GetDelegationSuggestions(tracker).confidence = 0

LastEvent(tr) == tr.events[Len(tr.events)]
JustLogged(type) ==
  /\ Len(tracker'.events) = Len(tracker.events) + 1
  /\ LastEvent(tracker').type = type

\* C18: updateInteractionPatterns(patch) gives every top-level field of the
\* patch exactly the patch's value, nested objects replaced whole, and leaves
\* every other top-level field as it was.
C18_ShallowMerge ==
  [][ JustLogged("patterns_updated") =>
        LET patch == LastEvent(tracker').data.data.newPatterns
            old == tracker.interactionPatterns
            new == tracker'.interactionPatterns
            oldFields == IF old = Null THEN {} ELSE DOMAIN old
        IN /\ DOMAIN new = oldFields \cup DOMAIN patch
           /\ \A f \in DOMAIN patch : new[f] = patch[f]
           /\ \A f \in oldFields \ DOMAIN patch : new[f] = old[f] ]_vars

\* three patches were merged: the first field is retained and the nested
\* knowledgeRequirements of the second was replaced whole by the third
C18_Witness ==
  /\ Len(tracker.events) = 3
  /\ \A i \in 1..3 : tracker.events[i].type = "patterns_updated"
  /\ DOMAIN tracker.events[1].data.data.newPatterns = {"primaryIntent"}
  /\ DOMAIN tracker.events[2].data.data.newPatterns = {"knowledgeRequirements"}
  /\ "domains" \in DOMAIN tracker.events[2].data.data.newPatterns.knowledgeRequirements
  /\ DOMAIN tracker.interactionPatterns = {"primaryIntent", "knowledgeRequirements"}
  /\ tracker.interactionPatterns.primaryIntent = "learn"
  /\ "domains" \notin DOMAIN tracker.interactionPatterns.knowledgeRequirements
  /\ "uncertaintyAreas" \in DOMAIN tracker.interactionPatterns.knowledgeRequirements

\* C19: the scenario_context_updated event carries in data.previousContext
\* the scenario context that was current before the update (null on the
\* first update).
C19_PreviousContextLogged ==
  [][ JustLogged("scenario_context_updated") =>
        LastEvent(tracker').data.previousContext = tracker.currentScenarioContext ]_vars

\* C20: after updateScenarioContext(content) the context is that of the
\* utterance alone, whatever the context was before.
C20_ContextOfUtteranceAlone ==
  [][ JustLogged("scenario_context_updated") =>
        LET analysis == LastEvent(tracker').data.analysis
        IN /\ \E u \in Utterances : analysis = AnalyzeContent(u)
           /\ tracker'.currentScenarioContext = ScenarioContextOf(analysis)
           /\ tracker'.currentScenarioContext.domain = analysis.domain
           /\ tracker'.currentScenarioContext.intent = analysis.intents
           /\ tracker'.currentScenarioContext.complexity = analysis.complexity ]_vars

\* C20: the context holds the ambiguity factors and the memory dependencies
\* of the utterance.
C20_ContextHoldsAmbiguityAndMemory ==
  [][ JustLogged("scenario_context_updated") =>
        LET analysis == LastEvent(tracker').data.analysis
            ctx == tracker'.currentScenarioContext
        IN /\ "ambiguityFactors" \in DOMAIN ctx
           /\ "memoryDependencies" \in DOMAIN ctx
           /\ ctx.ambiguityFactors = analysis.ambiguityFactors
           /\ ctx.memoryDependencies = analysis.memoryDependencies ]_vars

\* ------------------------------------------------------------------------
\* Properties of the transcript (checked under SpecTranscript)
\* ------------------------------------------------------------------------
UniqueIds(items) ==
  \A i, j \in 1..Len(items) : items[i].itemId = items[j].itemId => i = j

\* C14: item ids stay unique, and addTranscriptMessage with an id that an
\* item already has leaves the list, the item's content and its status as
\* they were.
C14_DuplicateInsertDropped ==
  [][ /\ UniqueIds(transcriptItems) => UniqueIds(transcriptItems')
      /\ ( /\ lastTranscriptCall'.n # lastTranscriptCall.n
           /\ lastTranscriptCall'.op = "add"
           /\ lastTranscriptCall'.itemId # NoItemId
           /\ HasItem(transcriptItems, lastTranscriptCall'.itemId) )
         => transcriptItems' = transcriptItems ]_vars

\* the id of an item that was updated and marked DONE is inserted again
C14_Witness ==
  /\ lastTranscriptCall.op = "add"
  /\ lastTranscriptCall.itemId = 1
  /\ lastTranscriptCall.n = 3
  /\ Len(transcriptItems) = 1
  /\ transcriptItems[1].itemId = 1
  /\ transcriptItems[1].status = "DONE"

Spaced(log) ==
  \A i, j \in 1..Len(log) :
    (i < j /\ log[i].itemId = log[j].itemId) => log[j].at - log[i].at >= 50

\* C15: two delta updates of one item that changed its text are at least
\* 50 ms apart, and a delta update of an item that had no update in the last
\* 50 ms is applied whatever updates other items had.
C15_DeltaRateLimited ==
  [][ /\ Spaced(deltaLog')
      /\ ( /\ lastTranscriptCall'.n # lastTranscriptCall.n
           /\ lastTranscriptCall'.op = "update"
           /\ lastTranscriptCall'.isDelta
           /\ HasItem(transcriptItems, lastTranscriptCall'.itemId)
           /\ now - LastUpdateOf(lastUpdateRef, lastTranscriptCall'.itemId) >= 50 )
         => /\ transcriptItems' # transcriptItems
            /\ deltaLog' = Append(deltaLog, [itemId |-> lastTranscriptCall'.itemId,
                                             at |-> now]) ]_vars

\* a delta update of item 1 was skipped 25 ms after an applied one
C15_Witness ==
  /\ Len(deltaLog) = 1
  /\ deltaLog[1].itemId = 1
  /\ lastTranscriptCall.op = "update"
  /\ lastTranscriptCall.itemId = 1
  /\ lastTranscriptCall.isDelta
  /\ lastTranscriptCall.at = deltaLog[1].at + 25
  /\ transcriptItems[1].title = ShortText \o ShortText

\* C16: with summarizeThreshold <= maxMessages, summary is null after every
\* addMessage call before the threshold-th one since construction or clear(),
\* and non-null after the threshold-th call and every later one.
C16_SummaryFromThresholdOn ==
  summarizeThreshold <= maxMessages =>
    (chain.summary # Null <=> Len(added) >= summarizeThreshold)

\* the threshold-th call of a chain with threshold 2 and cap 2 has set the
\* summary, after a first call that did not
C16_Witness ==
  /\ summarizeThreshold = 2
  /\ maxMessages = 2
  /\ Len(added) = 2
  /\ chain.summary # Null
  /\ last.op = "start"
  /\ last.summarized

\* ------------------------------------------------------------------------
\* Properties of the request body (checked under SpecConn)
\* ------------------------------------------------------------------------
\* the array an attempt of the call o issued in this state would send
RequestOf(o) == RequestMessages(conns[o.conn], variant, o.user)

Occurrences(seq, x) == Cardinality({i \in 1..Len(seq) : seq[i] = x})

HistoryContextUser(o) ==
  LET req == RequestOf(o)
      c == conns[o.conn]
  IN /\ Len(req) = Len(c.messageHistory) + 2
     /\ SubSeq(req, 1, Len(c.messageHistory)) = c.messageHistory
     /\ req[Len(req) - 1] = [role |-> "system", context |-> GetFormattedContext(c.memory)]
     /\ req[Len(req)] = o.user
     /\ Occurrences(req, o.user) = 1

\* C17, as stated: whatever the revision, the array sent is the history,
\* then one system message holding getFormattedContext(), then the new user
\* message, which is last and occurs once.
C17_RequestShapeAnyRevision ==
  \A o \in ops : o.kind = "send" => HistoryContextUser(o)

\* C17, amended: the revision with the memory chain sends the history, then
\* the context message, then the new user message, last and once; the
\* history-only revision sends its message history alone, with no context
\* message.
C17_RequestShape ==
  \A o \in ops : o.kind = "send" =>
    IF variant = "memory" THEN HistoryContextUser(o)
    ELSE /\ RequestOf(o) = conns[o.conn].messageHistory
         /\ \A i \in 1..Len(RequestOf(o)) : "context" \notin DOMAIN RequestOf(o)[i]

\* the second send of a session is in flight at its second attempt, the
\* history holding the first turn
C17_Witness ==
  /\ variant = "memory"
  /\ \E o \in ops :
       /\ o.kind = "send"
       /\ o.attempt = 2
       /\ Len(conns[o.conn].messageHistory) = 3
       /\ conns[o.conn].messageHistory[3].role = "assistant"
       /\ RequestOf(o)[5] = o.user

\* ------------------------------------------------------------------------
\* Properties of the event log and the projection list (SpecTracker)
\* ------------------------------------------------------------------------
\* An event as a reader of the log sees it: data.activeProjections of an
\* outcome event is the logger's projection array itself, so it shows the
\* array as it is when read.
EventSeen(tr, e) ==
  IF e.category = "outcome"
  THEN [e EXCEPT !.data.activeProjections = tr.activeOutcomeProjections]
  ELSE e

EventsSeen(tr) == [i \in 1..Len(tr.events) |-> EventSeen(tr, tr.events[i])]

RecentLimit == 50

\* getInsights
GetInsights(tr) ==
  [interactionInsights |-> tr.interactionPatterns,
   outcomeInsights |-> tr.activeOutcomeProjections,
   recentEvents |-> JsSliceFrom(EventsSeen(tr), 0 - RecentLimit)]

\* C21: the event log is append-only: no step removes, reorders or rewrites
\* a logged event (each event reads after the step as it read before it),
\* and getInsights().recentEvents is the last min(50, total) events in log
\* order.
C21_LogAppendOnly ==
  [][/\ Len(tracker'.events) >= Len(tracker.events)
     /\ \A i \in 1..Len(tracker.events) : EventsSeen(tracker')[i] = EventsSeen(tracker)[i]
     /\ GetInsights(tracker').recentEvents
          = LastN(EventsSeen(tracker'), Min(RecentLimit, Len(tracker'.events)))]_vars

\* the log itself: the array of event objects only grows at its end
LogArrayOnlyGrows ==
  [][/\ Len(tracker'.events) >= Len(tracker.events)
     /\ SubSeq(tracker'.events, 1, Len(tracker.events)) = tracker.events]_vars

Goals(projections) == [i \in 1..Len(projections) |-> projections[i].immediateGoal]

\* C22: the projection list only grows: a step leaves it as it is or
\* appends one projection, and then logs one projection_added outcome event
\* whose totalProjections is the new length; every event logged by a step
\* carries in metadata.contextualGoals the immediateGoal of the projections
\* added so far, in order.
C22_ProjectionsOnlyGrow ==
  [][LET old == tracker.activeOutcomeProjections
         new == tracker'.activeOutcomeProjections
     IN /\ \/ new = old
           \/ /\ Len(new) = Len(old) + 1
              /\ SubSeq(new, 1, Len(old)) = old
              /\ JustLogged("projection_added")
              /\ LastEvent(tracker').category = "outcome"
              /\ LastEvent(tracker').data.data.newProjection = new[Len(new)]
              /\ LastEvent(tracker').data.data.totalProjections = Len(new)
        /\ \A i \in 1..Len(tracker'.events) :
             IF i <= Len(tracker.events)
             THEN tracker'.events[i].metadata.contextualGoals
                    = tracker.events[i].metadata.contextualGoals
             ELSE tracker'.events[i].metadata.contextualGoals = Goals(new)]_vars

\* two projections with different goals were added, an event logged
\* between them
C22_Witness ==
  /\ Len(tracker.activeOutcomeProjections) = 2
  /\ Goals(tracker.activeOutcomeProjections)
       = <<"Compare competitors", "Initialize new agent interaction">>
  /\ Len(tracker.events) = 3
  /\ tracker.events[2].type = "agent_context_updated"
  /\ tracker.events[2].metadata.contextualGoals = <<"Compare competitors">>
  /\ tracker.events[3].data.data.totalProjections = 2

\* ------------------------------------------------------------------------
\* Properties of getFormattedContext (SpecContext)
\* ------------------------------------------------------------------------
Texts(ls) == [i \in 1..Len(ls) |-> ls[i].text]
LinesOf(ctx, kind) == SelectSeq(ctx, LAMBDA l : l.line = kind)

\* C23: the text returned by getFormattedContext is empty exactly when there
\* is no summary and no key point; otherwise it is the summary paragraph when
\* there is a summary, followed, when there are key points, by one bullet per
\* key point in order; the call changes no state.
C23_FormattedContext ==
  [][last'.op = "context" =>
       LET ctx == last'.context
       IN /\ chain' = chain /\ pending' = pending /\ added' = added
          /\ (ctx = <<>>) <=> (chain.summary = Null /\ chain.keyPoints = <<>>)
          /\ Texts(LinesOf(ctx, "text"))
               = IF chain.summary = Null THEN <<>> ELSE <<chain.summary>>
          /\ Texts(LinesOf(ctx, "bullet")) = chain.keyPoints
          /\ chain.summary # Null => ctx[2] = TextLine(chain.summary)
          /\ Len(LinesOf(ctx, "heading"))
               = (IF chain.summary = Null THEN 0 ELSE 1)
                 + (IF chain.keyPoints = <<>> THEN 0 ELSE 1)
          /\ \A i \in 1..Len(ctx) :
               ctx[i].line = "bullet" => i > (IF chain.summary = Null THEN 1 ELSE 4)]_vars

\* the text of a chain with a summary and two different key points
C23_Witness ==
  /\ last.op = "context"
  /\ chain.summary # Null
  /\ Len(chain.keyPoints) = 2
  /\ chain.keyPoints[1] # chain.keyPoints[2]
  /\ Len(last.context) = 7

\* the text of a chain without summary and key points
C23_WitnessEmpty ==
  /\ last.op = "context" /\ last.context = <<>> /\ Len(chain.messages) = 2

\* ------------------------------------------------------------------------
\* Properties of analyzeContent (SpecAnalysis)
\* ------------------------------------------------------------------------
RequestVerbs == {"need", "want", "please", "can", "could"}

Asks(text) == HasAny(text, {"?"}) \/ HasAny(text, Interrogatives)
Requests(text) == HasAny(text, RequestVerbs)
Holds(seq, x) == \E i \in 1..Len(seq) : seq[i] = x

\* C25: the intents hold information_seeking exactly when the utterance has
\* a question mark or an interrogative token and action_request exactly
\* when it has a request-verb token; an utterance with both has two intents.
C25_IntentDetection ==
  analysisResult # Null =>
    /\ Holds(analysisResult.intents, "information_seeking") <=> Asks(utterance)
    /\ Holds(analysisResult.intents, "action_request") <=> Requests(utterance)
    /\ (Asks(utterance) /\ Requests(utterance)) => Len(analysisResult.intents) = 2

\* the part of C25 about information_seeking alone
InformationSeekingDetected ==
  analysisResult # Null =>
    (Holds(analysisResult.intents, "information_seeking") <=> Asks(utterance))

ClaimedScore ==
  (IF ContentLength(utterance) > 100 THEN 2 ELSE IF ContentLength(utterance) > 50 THEN 1 ELSE 0)
  + (IF Len(analysisResult.intents) > 2 THEN 2
     ELSE IF Len(analysisResult.intents) > 1 THEN 1 ELSE 0)
  + (IF analysisResult.domain # "general" THEN 1 ELSE 0)
  + Len(analysisResult.ambiguityFactors)

\* C26: complexity is high when score >= 4, medium when 2 <= score < 4 and
\* low otherwise, the score being the length term, the intent term, 1 for a
\* domain other than general and the number of ambiguity factors; a
\* domain_knowledge memory dependency is present exactly when complexity is
\* high.
C26_ComplexityScore ==
  analysisResult # Null =>
    /\ analysisResult.complexity
         = (IF ClaimedScore >= 4 THEN "high"
            ELSE IF ClaimedScore >= 2 THEN "medium" ELSE "low")
    /\ Holds(analysisResult.memoryDependencies, DomainKnowledgeDependency)
         <=> analysisResult.complexity = "high"
    /\ \A i \in 1..Len(analysisResult.memoryDependencies) :
         analysisResult.memoryDependencies[i].type = "domain_knowledge"
           => analysisResult.memoryDependencies[i] = DomainKnowledgeDependency

\* an utterance of 70 characters whose score is exactly 4
C26_Witness ==
  /\ utterance = <<Filler50, "remember", "assumption", "analysis">>
  /\ analysisResult # Null
  /\ ClaimedScore = 4
  /\ analysisResult.complexity = "high"

\* utterances of 100 and 101 characters and of score 3 and 1
C26_WitnessLength100 ==
  /\ utterance = <<Filler50, Filler49>> /\ analysisResult # Null
  /\ ClaimedScore = 1 /\ analysisResult.complexity = "low"

C26_WitnessLength101 ==
  /\ utterance = <<Filler50, Filler50>> /\ analysisResult # Null
  /\ ClaimedScore = 2 /\ analysisResult.complexity = "medium"

\* ------------------------------------------------------------------------
\* Properties of the turns sendMessage records (SpecConn)
\* ------------------------------------------------------------------------
UserTurns(msgs) == SelectSeq(msgs, LAMBDA m : m.role = "user")

\* C27: when a sendMessage call settles, its user message is in the memory
\* chain once, whatever the number of attempts; a successful call appended
\* one assistant message after it and a failed call appended none; memory
\* chain and message history hold the same user turns.
C27_TurnsRecorded ==
  [][(JustSettled /\ done'.kind = "send" /\ variant = "memory"
        /\ conns[done'.conn].isConnected)
       => LET before == conns[done'.conn]
              after == conns'[done'.conn]
          IN /\ Occurrences(after.memory.messages, done'.user) = 1
             /\ done'.result = "ok" =>
                  /\ Len(after.memory.messages) = Len(before.memory.messages) + 1
                  /\ after.memory.messages[Len(after.memory.messages)].role = "assistant"
             /\ done'.result # "ok" => after.memory.messages = before.memory.messages
             /\ UserTurns(after.memory.messages) = UserTurns(after.messageHistory)]_vars

\* the part of C27 about the memory chain alone
MemoryChainHoldsTurn ==
  [][(JustSettled /\ done'.kind = "send" /\ variant = "memory"
        /\ conns[done'.conn].isConnected)
       => LET before == conns[done'.conn]
              after == conns'[done'.conn]
          IN /\ Occurrences(after.memory.messages, done'.user) = 1
             /\ done'.result = "ok" =>
                  /\ Len(after.memory.messages) = Len(before.memory.messages) + 1
                  /\ after.memory.messages[Len(after.memory.messages)].role = "assistant"
             /\ done'.result # "ok" => after.memory.messages = before.memory.messages]_vars

\* ------------------------------------------------------------------------
\* Quiescence of the event log (SpecTracker)
\* ------------------------------------------------------------------------
\* the events logged by the calls of the logger's callers: every type but
\* the one processEvent logs by itself
CallerEvents(tr) == SelectSeq(tr.events, LAMBDA e : e.type # "search_reasoning_generated")

\* C28: the length of the log equals the number of logging calls made by the
\* callers: processing a logged event appends no event by itself.
C28_LoggingQuiesces == Len(tracker.events) = Len(CallerEvents(tracker))

\* ------------------------------------------------------------------------
\* Session status and connection (SpecGate, SpecConn)
\* ------------------------------------------------------------------------
RefConnected == connectionRef # 0 /\ conns[connectionRef].isConnected

\* C29: sessionStatus is CONNECTED exactly when connectionRef.current holds
\* a connection whose isConnected is true.
C29_StatusMatchesConnection == (sessionStatus = "CONNECTED") <=> RefConnected

\* the part of C29 stated "in particular": sessionStatus is never
\* DISCONNECTED while connectionRef.current is a connected connection
NeverDisconnectedWhileConnected == ~(sessionStatus = "DISCONNECTED" /\ RefConnected)

\* ------------------------------------------------------------------------
\* State of a connection after disconnect() (SpecConn)
\* ------------------------------------------------------------------------
NoTurn(msgs) == \A i \in 1..Len(msgs) : msgs[i].role = "system"

\* a connection as disconnect() leaves it
Cleared(c) ==
  /\ ~c.isConnected
  /\ NoTurn(c.messageHistory)
  /\ variant = "memory" =>
       /\ c.messageHistory = <<>>
       /\ c.memory.messages = <<>>
       /\ c.memory.summary = Null
       /\ c.memory.keyPoints = <<>>

ConnectPending(i) == \E o \in ops : o.kind = "connect" /\ o.conn = i

\* C30: a step that disconnects a connection leaves it not connected, its
\* memory chain empty and its message history without a conversation turn,
\* and the connection stays so, also when a sendMessage call on it settles
\* later.
C30_DisconnectResets ==
  [][\A i \in 1..Len(conns) :
       /\ (conns[i].isConnected /\ ~conns'[i].isConnected) => Cleared(conns'[i])
       /\ (Cleared(conns[i]) /\ ~ConnectPending(i)) => Cleared(conns'[i])]_vars

\* the part of C30 about the disconnecting step alone
DisconnectClears ==
  [][\A i \in 1..Len(conns) :
       (conns[i].isConnected /\ ~conns'[i].isConnected) => Cleared(conns'[i])]_vars

====
